---- MODULE Spec2Model ----
(***************************************************************************)
(* Model of python_bot_utils/facebook.py: the Button and QuickReply        *)
(* payload builders and the MessengerBot client.  A Python dict is a       *)
(* function from keys to values; dict.update is Update.  The transport     *)
(* (requests.post) is an external collaborator: it either raises a         *)
(* network exception or answers with a status code and a body that is or   *)
(* is not JSON (response.json() raises ValueError on a body that is not).  *)
(***************************************************************************)
EXTENDS Integers, Sequences, FiniteSets, TLC

\* ------------------------------------------------------------------ bounds
NumRecipients == 2
NumTokens == 2
MaxCalls == 3

\* ------------------------------------------------------------------ inputs
Recipients == 1..NumRecipients
Tokens == 1..NumTokens
Texts == {"hi", "yo"}
Titles == {"", "Hi", "Yo"}
Payloads == {"", "x", "+16505551234"}
Urls == {"https://e.x/a", "https://e.x/b"}
ImageUrls == {"", "https://e.x/i.png"}
ContentTypes == {"text", "location", "other"}
HeightRatios == {"full", "compact"}
PaymentSummaries == {[currency |-> "USD"]}
AttachmentTypes == {"image", "file", "audio", "video", "sticker"}
SenderActions == {"mark_seen", "typing_on", "typing_of", "typing_off", "bogus"}
StatusCodes == {200, 400}

\* ----------------------------------------------------------- dict helpers
EmptyDict == [k \in {} |-> k]

\* dict.update(e): keys of e are set, every other key of d is kept
Update(d, e) ==
  [k \in (DOMAIN d) \cup (DOMAIN e) |-> IF k \in DOMAIN e THEN e[k] ELSE d[k]]

\* ---------------------------------------------------------------- Buttons
Button(button_type) == [type |-> button_type]

UrlButton(title, url, webview_height_ratio, messenger_extensions) ==
  Update(Button("web_url"),
         [title |-> title, url |-> url,
          webview_height_ratio |-> webview_height_ratio,
          messenger_extensions |-> messenger_extensions])

PostbackButton(title, payload) ==
  Update(Button("postback"), [title |-> title, payload |-> payload])

\* CallButton with the tag of the class it was copied from
CallButton_postback_tag(title, payload) ==
  Update(Button("postback"), [title |-> title, payload |-> payload])

CallButton(title, payload) ==
  Update(Button("phone_number"), [title |-> title, payload |-> payload])

ShareButton == Button("element_share")

BuyButton(title, payload, payment_summary) ==
  Update(Button("payment"),
         [title |-> title, payload |-> payload,
          payment_summary |-> payment_summary])

LogInButton(url) == Update(Button("account_link"), [url |-> url])

LogOutButton == Button("account_unlink")

\* ------------------------------------------------------------- QuickReply
\* QuickReply requiring title and payload together
QuickReply_both_or_neither(content_type, title, payload, image_url) ==
  LET p0 == [content_type |-> content_type]
      p1 == IF content_type = "text"
              THEN Update(p0, [title |-> title, payload |-> payload])
              ELSE p0
      p2 == IF image_url # ""
              THEN Update(p1, [image_url |-> image_url])
              ELSE p1
  IN IF content_type = "text" /\ ((title = "") # (payload = ""))
       THEN [raised |-> "AttributeError", payload |-> EmptyDict]
       ELSE [raised |-> "none", payload |-> p2]

\* QuickReply attaching image_url to text quick replies only
QuickReply_image_for_text(content_type, title, payload, image_url) ==
  LET p0 == [content_type |-> content_type]
      p1 == IF content_type = "text"
              THEN Update(p0, [title |-> title, payload |-> payload])
              ELSE p0
      p2 == IF image_url # "" /\ content_type = "text"
              THEN Update(p1, [image_url |-> image_url])
              ELSE p1
  IN IF content_type = "text" /\ (title = "" /\ payload # "")
       THEN [raised |-> "AttributeError", payload |-> EmptyDict]
       ELSE [raised |-> "none", payload |-> p2]

\* result of the constructor: the exception raised ("none" when it returns)
\* and the payload attribute of the constructed object
QuickReply(content_type, title, payload, image_url) ==
  LET p0 == [content_type |-> content_type]
      p1 == IF content_type = "text"
              THEN Update(p0, [title |-> title, payload |-> payload])
              ELSE p0
      p2 == IF image_url # ""
              THEN Update(p1, [image_url |-> image_url])
              ELSE p1
  IN IF content_type = "text" /\ (title = "" /\ payload # "")
       THEN [raised |-> "AttributeError", payload |-> EmptyDict]
       ELSE [raised |-> "none", payload |-> p2]

\* ----------------------------------------------------------- MessengerBot
\* what requests.post can do: raise, or answer with a status and a body
Responses ==
  {[raises |-> TRUE, status_code |-> 0, is_json |-> FALSE]} \cup
  [raises : {FALSE}, status_code : StatusCodes, is_json : BOOLEAN]

\* the effect of one invocation that stopped at validation
Invalid(self, payload) ==
  [page_access_token |-> self, payload |-> payload, posts |-> <<>>,
   logs |-> <<>>, json_decodes |-> 0, raised |-> "AttributeError"]

\* shape shared by the variants of call_send_api below
SendEffect(token, caller, body, resp, decodes, logged, exc) ==
  [page_access_token |-> token,
   payload |-> caller,
   posts |-> <<[url |-> "https://graph.facebook.com/v2.6/me/messages",
                access_token |-> token, json |-> body]>>,
   json_decodes |-> decodes,
   logs |-> IF logged
              THEN <<[level |-> "error", status_code |-> resp.status_code]>>
              ELSE <<>>,
   raised |-> exc]

\* call_send_api catching and logging the transport's exception
call_send_api_catching(self, recipient_id, payload, resp) ==
  LET body == Update(payload, [recipient |-> [id |-> recipient_id]])
  IN SendEffect(self, body, body, resp,
       IF resp.raises THEN 0 ELSE 1,
       resp.raises \/ (resp.status_code # 200 /\ resp.is_json),
       IF ~resp.raises /\ ~resp.is_json THEN "ValueError" ELSE "none")

\* call_send_api decoding the body on 200 only and logging the raw text
call_send_api_decode_on_200(self, recipient_id, payload, resp) ==
  LET body == Update(payload, [recipient |-> [id |-> recipient_id]])
  IN SendEffect(self, body, body, resp,
       IF ~resp.raises /\ resp.status_code = 200 THEN 1 ELSE 0,
       ~resp.raises /\ resp.status_code # 200,
       IF resp.raises THEN "ConnectionError"
       ELSE IF resp.status_code = 200 /\ ~resp.is_json THEN "ValueError"
       ELSE "none")

\* call_send_api sending a module-level token instead of the instance's
call_send_api_fixed_token(self, recipient_id, payload, resp) ==
  LET body == Update(payload, [recipient |-> [id |-> recipient_id]])
  IN [SendEffect(1, body, body, resp,
       IF resp.raises THEN 0 ELSE 1,
       ~resp.raises /\ resp.status_code # 200 /\ resp.is_json,
       IF resp.raises THEN "ConnectionError"
       ELSE IF ~resp.is_json THEN "ValueError"
       ELSE "none") EXCEPT !.page_access_token = self]

\* call_send_api merging the recipient into a copy of the payload
call_send_api_copying(self, recipient_id, payload, resp) ==
  LET body == Update(payload, [recipient |-> [id |-> recipient_id]])
  IN SendEffect(self, payload, body, resp,
       IF resp.raises THEN 0 ELSE 1,
       ~resp.raises /\ resp.status_code # 200 /\ resp.is_json,
       IF resp.raises THEN "ConnectionError"
       ELSE IF ~resp.is_json THEN "ValueError"
       ELSE "none")

call_send_api(self, recipient_id, payload, resp) ==
  LET body == Update(payload, [recipient |-> [id |-> recipient_id]])
      post == [url |-> "https://graph.facebook.com/v2.6/me/messages",
               access_token |-> self, json |-> body]
  IN [page_access_token |-> self,
      payload |-> body,
      posts |-> <<post>>,
      json_decodes |-> IF resp.raises THEN 0 ELSE 1,
      logs |-> IF ~resp.raises /\ resp.status_code # 200 /\ resp.is_json
                 THEN <<[level |-> "error",
                         status_code |-> resp.status_code]>>
                 ELSE <<>>,
      raised |-> IF resp.raises THEN "ConnectionError"
                 ELSE IF ~resp.is_json THEN "ValueError"
                 ELSE "none"]

\* sendMessage putting the text at the top level of the payload
sendMessage_unwrapped(self, recipient_id, message, resp) ==
  call_send_api(self, recipient_id, [text |-> message], resp)

sendMessage(self, recipient_id, message, resp) ==
  call_send_api(self, recipient_id, [message |-> [text |-> message]], resp)

sendAttachment(self, recipient_id, attachment_type, url, resp) ==
  call_send_api(self, recipient_id,
    [message |-> [attachment |-> [type |-> attachment_type,
                                  payload |-> [url |-> url]]]], resp)

sendAudio(self, recipient_id, url, resp) ==
  sendAttachment(self, recipient_id, "audio", url, resp)

sendFile(self, recipient_id, url, resp) ==
  sendAttachment(self, recipient_id, "file", url, resp)

sendImage(self, recipient_id, url, resp) ==
  sendAttachment(self, recipient_id, "image", url, resp)

sendVideo(self, recipient_id, url, resp) ==
  sendAttachment(self, recipient_id, "video", url, resp)

sendButton(self, recipient_id, message, buttons, resp) ==
  call_send_api(self, recipient_id,
    [message |-> [attachment |->
       [type |-> "template",
        payload |-> [template_type |-> "button", text |-> message,
                     buttons |-> buttons]]]], resp)

sendQuickReply(self, recipient_id, message, quick_replies, resp) ==
  call_send_api(self, recipient_id,
    [message |-> [text |-> message, quick_replies |-> quick_replies]], resp)

\* sendSenderAction with the third action spelled typing_off
sendSenderAction_typing_off(self, recipient_id, sender_action, resp) ==
  IF sender_action \notin {"mark_seen", "typing_on", "typing_off"}
    THEN Invalid(self, EmptyDict)
    ELSE call_send_api(self, recipient_id,
                       [sender_action |-> sender_action], resp)

sendSenderAction(self, recipient_id, sender_action, resp) ==
  IF sender_action \notin {"mark_seen", "typing_on", "typing_of"}
    THEN Invalid(self, EmptyDict)
    ELSE call_send_api(self, recipient_id,
                       [sender_action |-> sender_action], resp)

\* ------------------------------------------------------------------ state
VARIABLES
  constructed_token,   \* the argument MessengerBot.__init__ was given
  page_access_token,   \* self.page_access_token
  built,               \* the last builder construction: class, args, result
  op,                  \* the last MessengerBot operation invoked
  args,                \* its arguments
  resp,                \* what the transport did in that invocation
  posts,               \* the POSTs that invocation issued
  logs,                \* the log records that invocation emitted
  json_decodes,        \* the response.json() calls that invocation made
  raised,              \* the exception that invocation raised, or "none"
  caller_payload,      \* the caller's payload mapping after the invocation
  tokens_used,         \* access_token of every POST issued so far
  ncalls               \* MessengerBot operations invoked so far

vars == <<constructed_token, page_access_token, built, op, args, resp, posts,
          logs, json_decodes, raised, caller_payload, tokens_used, ncalls>>

botvars == <<constructed_token, page_access_token, op, args, resp, posts,
             logs, json_decodes, raised, caller_payload, tokens_used, ncalls>>

NoResponse == [raises |-> FALSE, status_code |-> 0, is_json |-> FALSE]

Init ==
  /\ constructed_token \in Tokens
  /\ page_access_token = constructed_token
  /\ built = [cls |-> "none", args |-> EmptyDict, raised |-> "none",
              payload |-> EmptyDict]
  /\ op = "none"
  /\ args = EmptyDict
  /\ resp = NoResponse
  /\ posts = <<>>
  /\ logs = <<>>
  /\ json_decodes = 0
  /\ raised = "none"
  /\ caller_payload = EmptyDict
  /\ tokens_used = {}
  /\ ncalls = 0

\* ------------------------------------------------------- builder actions
Construct(cls, a, r) ==
  /\ built' = [cls |-> cls, args |-> a, raised |-> r.raised,
               payload |-> r.payload]
  /\ UNCHANGED botvars

Ok(p) == [raised |-> "none", payload |-> p]

NewUrlButton ==
  \E t \in Titles, u \in Urls, h \in HeightRatios, m \in BOOLEAN :
    Construct("UrlButton",
              [title |-> t, url |-> u, webview_height_ratio |-> h,
               messenger_extensions |-> m],
              Ok(UrlButton(t, u, h, m)))

NewPostbackButton ==
  \E t \in Titles, p \in Payloads :
    Construct("PostbackButton", [title |-> t, payload |-> p],
              Ok(PostbackButton(t, p)))

NewCallButton ==
  \E t \in Titles, p \in Payloads :
    Construct("CallButton", [title |-> t, payload |-> p],
              Ok(CallButton(t, p)))

NewShareButton == Construct("ShareButton", EmptyDict, Ok(ShareButton))

NewBuyButton ==
  \E t \in Titles, p \in Payloads, s \in PaymentSummaries :
    Construct("BuyButton",
              [title |-> t, payload |-> p, payment_summary |-> s],
              Ok(BuyButton(t, p, s)))

NewLogInButton ==
  \E u \in Urls : Construct("LogInButton", [url |-> u], Ok(LogInButton(u)))

NewLogOutButton == Construct("LogOutButton", EmptyDict, Ok(LogOutButton))

NewQuickReply ==
  \E c \in ContentTypes, t \in Titles, p \in Payloads, i \in ImageUrls :
    Construct("QuickReply",
              [content_type |-> c, title |-> t, payload |-> p,
               image_url |-> i],
              QuickReply(c, t, p, i))

\* --------------------------------------------------- MessengerBot actions
\* one invocation: a is the arguments, rs the transport's behaviour, e the
\* effect the method computes
Invoke(name, a, rs, e) ==
  /\ ncalls < MaxCalls
  /\ ncalls' = ncalls + 1
  /\ op' = name
  /\ args' = a
  /\ resp' = IF e.posts = <<>> THEN NoResponse ELSE rs
  /\ page_access_token' = e.page_access_token
  /\ posts' = e.posts
  /\ logs' = e.logs
  /\ json_decodes' = e.json_decodes
  /\ raised' = e.raised
  /\ caller_payload' = e.payload
  /\ tokens_used' =
       tokens_used \cup {e.posts[i].access_token : i \in DOMAIN e.posts}
  /\ UNCHANGED <<constructed_token, built>>

\* the lists a caller can pass: payloads of builder objects
ButtonLists ==
  {<<>>, <<ShareButton>>, <<PostbackButton("Hi", "x"), LogOutButton>>}

QuickReplyLists ==
  {<<>>, <<QuickReply("text", "Hi", "x", "").payload>>,
   <<QuickReply("location", "", "", "").payload>>}

\* the mappings a caller can hand to call_send_api directly
RawPayloads ==
  {EmptyDict,
   [message |-> [text |-> "hi"]],
   [message |-> [text |-> "hi"], recipient |-> [id |-> 0]],
   [sender_action |-> "typing_on", recipient |-> [id |-> 0]]}

Step_call_send_api ==
  \E r \in Recipients, p \in RawPayloads, rs \in Responses :
    Invoke("call_send_api", [recipient_id |-> r, payload |-> p], rs,
           call_send_api(page_access_token, r, p, rs))

Step_sendMessage ==
  \E r \in Recipients, m \in Texts, rs \in Responses :
    Invoke("sendMessage", [recipient_id |-> r, message |-> m], rs,
           sendMessage(page_access_token, r, m, rs))

Step_sendAttachment ==
  \E r \in Recipients, t \in AttachmentTypes, u \in Urls, rs \in Responses :
    Invoke("sendAttachment",
           [recipient_id |-> r, attachment_type |-> t, url |-> u], rs,
           sendAttachment(page_access_token, r, t, u, rs))

Step_sendAudio ==
  \E r \in Recipients, u \in Urls, rs \in Responses :
    Invoke("sendAudio", [recipient_id |-> r, url |-> u], rs,
           sendAudio(page_access_token, r, u, rs))

Step_sendFile ==
  \E r \in Recipients, u \in Urls, rs \in Responses :
    Invoke("sendFile", [recipient_id |-> r, url |-> u], rs,
           sendFile(page_access_token, r, u, rs))

Step_sendImage ==
  \E r \in Recipients, u \in Urls, rs \in Responses :
    Invoke("sendImage", [recipient_id |-> r, url |-> u], rs,
           sendImage(page_access_token, r, u, rs))

Step_sendVideo ==
  \E r \in Recipients, u \in Urls, rs \in Responses :
    Invoke("sendVideo", [recipient_id |-> r, url |-> u], rs,
           sendVideo(page_access_token, r, u, rs))

Step_sendButton ==
  \E r \in Recipients, m \in Texts, b \in ButtonLists,
     rs \in Responses :
    Invoke("sendButton", [recipient_id |-> r, message |-> m, buttons |-> b],
           rs, sendButton(page_access_token, r, m, b, rs))

Step_sendQuickReply ==
  \E r \in Recipients, m \in Texts, q \in QuickReplyLists,
     rs \in Responses :
    Invoke("sendQuickReply",
           [recipient_id |-> r, message |-> m, quick_replies |-> q], rs,
           sendQuickReply(page_access_token, r, m, q, rs))

Step_sendSenderAction ==
  \E r \in Recipients, a \in SenderActions, rs \in Responses :
    Invoke("sendSenderAction", [recipient_id |-> r, sender_action |-> a],
           rs, sendSenderAction(page_access_token, r, a, rs))

NextBuilders ==
  \/ NewUrlButton
  \/ NewPostbackButton
  \/ NewCallButton
  \/ NewShareButton
  \/ NewBuyButton
  \/ NewLogInButton
  \/ NewLogOutButton
  \/ NewQuickReply

NextBot ==
  \/ Step_call_send_api
  \/ Step_sendMessage
  \/ Step_sendAttachment
  \/ Step_sendAudio
  \/ Step_sendFile
  \/ Step_sendImage
  \/ Step_sendVideo
  \/ Step_sendButton
  \/ Step_sendQuickReply
  \/ Step_sendSenderAction

\* the builders and the client are independent components
SpecBuilders == Init /\ [][NextBuilders]_vars

SpecBot == Init /\ [][NextBot]_vars

\* ================================================================ claims
\* the transport answered the last invocation with an HTTP response
Answered == posts # <<>> /\ ~resp.raises

\* C1: one call of sendMessage(r, m) issues exactly one POST, and its JSON
\* body is exactly {message: {text: m}, recipient: {id: r}}
C1_SendMessageOnePost ==
  op = "sendMessage" =>
    /\ Len(posts) = 1
    /\ posts[1].json = [message |-> [text |-> args.message],
                        recipient |-> [id |-> args.recipient_id]]

C1_Witness ==
  /\ op = "sendMessage"
  /\ args.message = "hi"
  /\ Len(posts) = 1
  /\ raised = "none"

\* C2: sendSenderAction(r, a) passes validation and issues one POST (and
\* returns normally when the transport answers with a JSON body) when a is
\* mark_seen, typing_on or typing_of; for every other a it raises the
\* validation error (AttributeError) and issues no POST
C2_SenderActionValidation ==
  op = "sendSenderAction" =>
    IF args.sender_action \in {"mark_seen", "typing_on", "typing_of"}
      THEN /\ Len(posts) = 1
           /\ posts[1].json = [sender_action |-> args.sender_action,
                               recipient |-> [id |-> args.recipient_id]]
           /\ raised # "AttributeError"
           /\ (~resp.raises /\ resp.is_json => raised = "none")
      ELSE /\ raised = "AttributeError"
           /\ posts = <<>>

C2_Witness ==
  /\ op = "sendSenderAction"
  /\ args.sender_action = "typing_off"
  /\ raised = "AttributeError"
  /\ posts = <<>>

\* C3: when the transport answers with a status other than 200, the send
\* operation raises nothing and emits exactly one error log record holding
\* the status code
C3_NonOkSilentOneLog ==
  Answered /\ resp.status_code # 200 =>
    /\ raised = "none"
    /\ Len(logs) = 1
    /\ logs[1].level = "error"
    /\ logs[1].status_code = resp.status_code

\* C4 as stated: a network exception of the transport is captured and
\* logged, and the send operation returns normally
C4_ExceptionCaptured ==
  posts # <<>> /\ resp.raises => raised = "none" /\ Len(logs) = 1

\* C4 amended: a network exception of the transport is neither captured nor
\* logged; it propagates to the caller of the send operation
C4_ExceptionPropagates ==
  posts # <<>> /\ resp.raises => raised = "ConnectionError" /\ logs = <<>>

C4_Witness ==
  /\ op = "sendAttachment"
  /\ posts # <<>>
  /\ resp.raises
  /\ raised = "ConnectionError"

\* C5: QuickReply(content_type, title, payload, image_url) raises the
\* validation error exactly when content_type is "text", title is empty and
\* payload is non-empty; every other combination constructs
C5_QuickReplyRaisesIff ==
  built.cls = "QuickReply" =>
    /\ built.raised \in {"none", "AttributeError"}
    /\ built.raised = "AttributeError" <=>
         /\ built.args.content_type = "text"
         /\ built.args.title = ""
         /\ built.args.payload # ""

C5_Witness ==
  /\ built.cls = "QuickReply"
  /\ built.args.content_type = "text"
  /\ built.args.title = "Hi"
  /\ built.args.payload = ""
  /\ built.raised = "none"

\* C6: a constructed QuickReply's payload always has content_type, has
\* title and payload iff content_type is "text", has image_url iff
\* image_url is non-empty, and has no other key
C6_QuickReplyKeys ==
  built.cls = "QuickReply" /\ built.raised = "none" =>
    LET keys == DOMAIN built.payload
        a == built.args
    IN /\ "content_type" \in keys
       /\ built.payload.content_type = a.content_type
       /\ "title" \in keys <=> a.content_type = "text"
       /\ "payload" \in keys <=> a.content_type = "text"
       /\ "image_url" \in keys <=> a.image_url # ""
       /\ keys \subseteq {"content_type", "title", "payload", "image_url"}
       /\ a.content_type = "text" =>
            built.payload.title = a.title /\ built.payload.payload = a.payload
       /\ a.image_url # "" => built.payload.image_url = a.image_url
       /\ a.content_type = "location" /\ a.image_url = "" =>
            built.payload = [content_type |-> "location"]

C6_Witness ==
  /\ built.cls = "QuickReply"
  /\ built.raised = "none"
  /\ built.args.content_type = "location"
  /\ built.args.image_url # ""
  /\ "image_url" \in DOMAIN built.payload

\* the fixed tag and the required fields of each Button variant
ButtonClasses ==
  {"UrlButton", "PostbackButton", "CallButton", "ShareButton", "BuyButton",
   "LogInButton", "LogOutButton"}

ButtonTag(cls) ==
  CASE cls = "UrlButton" -> "web_url"
    [] cls = "PostbackButton" -> "postback"
    [] cls = "CallButton" -> "phone_number"
    [] cls = "ShareButton" -> "element_share"
    [] cls = "BuyButton" -> "payment"
    [] cls = "LogInButton" -> "account_link"
    [] cls = "LogOutButton" -> "account_unlink"

ButtonRequired(cls) ==
  CASE cls = "UrlButton" -> {"title", "url"}
    [] cls \in {"PostbackButton", "CallButton"} -> {"title", "payload"}
    [] cls = "BuyButton" -> {"title", "payload", "payment_summary"}
    [] cls = "LogInButton" -> {"url"}
    [] cls \in {"ShareButton", "LogOutButton"} -> {}

\* C7: every Button variant's payload has type equal to the variant's tag
\* and holds every required field with exactly the value passed in
C7_ButtonTagAndFields ==
  built.cls \in ButtonClasses =>
    /\ built.raised = "none"
    /\ "type" \in DOMAIN built.payload
    /\ built.payload.type = ButtonTag(built.cls)
    /\ \A k \in ButtonRequired(built.cls) :
         k \in DOMAIN built.payload /\ built.payload[k] = built.args[k]

C7_Witness ==
  /\ built.cls = "CallButton"
  /\ built.payload.type = "phone_number"
  /\ built.payload.payload = "+16505551234"

\* C8 as stated: for a non-200 status the body is never JSON-decoded
C8_DecodeOnlyOn200 ==
  Answered /\ resp.status_code # 200 => json_decodes = 0

\* C8 amended: the body of every response received is JSON-decoded exactly
\* once whatever the status (for a non-200 status while building the log
\* record), and nothing is decoded when no response was received
C8_DecodeOnEveryResponse ==
  json_decodes = IF Answered THEN 1 ELSE 0

C8_Witness ==
  /\ Answered
  /\ resp.status_code # 200
  /\ resp.is_json
  /\ json_decodes = 1
  /\ Len(logs) = 1

\* C9: after any sequence of operations the instance's page_access_token
\* is the value given at construction and every POST carries that token
C9_TokenImmutable ==
  /\ page_access_token = constructed_token
  /\ \A i \in DOMAIN posts : posts[i].access_token = constructed_token
  /\ tokens_used \subseteq {constructed_token}

C9_Witness ==
  /\ ncalls >= 2
  /\ constructed_token = NumTokens
  /\ tokens_used = {constructed_token}
  /\ Answered
  /\ resp.status_code # 200

\* C10: call_send_api(recipient_id, payload) changes the caller's mapping
\* in place: afterwards it is the posted body, its recipient is
\* {id: recipient_id} and every other key is unchanged, whatever the
\* transport did
C10_PayloadMutatedInPlace ==
  op = "call_send_api" =>
    /\ DOMAIN caller_payload = (DOMAIN args.payload) \cup {"recipient"}
    /\ caller_payload.recipient = [id |-> args.recipient_id]
    /\ \A k \in (DOMAIN args.payload) \ {"recipient"} :
         caller_payload[k] = args.payload[k]
    /\ Len(posts) = 1
    /\ posts[1].json = caller_payload

C10_Witness ==
  /\ op = "call_send_api"
  /\ "recipient" \in DOMAIN args.payload
  /\ "sender_action" \in DOMAIN args.payload
  /\ Answered
  /\ resp.status_code # 200
  /\ caller_payload.recipient.id = args.recipient_id
====
